---- MODULE Spec2Model ----
(***************************************************************************)
(* StringCalculator.add (src/src/StringCalculator.ts, the modular class of *)
(* lines 45-372) as a state machine.  A string is a sequence of one-       *)
(* character strings; indices and substring bounds are 0-based as in       *)
(* JavaScript and only converted when a TLA+ sequence is indexed.          *)
(***************************************************************************)
EXTENDS Integers, Sequences, FiniteSets, TLC

VARIABLES
    shape,                      \* how the caller assembled the argument
    input,                      \* the argument `numbers` of the call
    pc,                         \* "call": add is about to run; "returned"
    outcome,                    \* what the call gave back: a sum or an error
    ran,                        \* the pipeline stages the call executed
    delimitersUsed,             \* the custom delimiters the call extracted
    partsSplit,                 \* the parts the call split the payload into
    instance,                   \* the StringCalculator object called
    DEFAULT_DELIMITER_PATTERN,  \* the shared static RegExp object
    seen                        \* first outcome observed for each input

vars == <<shape, input, pc, outcome, ran, delimitersUsed, partsSplit, instance,
          DEFAULT_DELIMITER_PATTERN, seen>>

----------------------------------------------------------------------------
(* Characters and JavaScript string primitives *)

LF == "\n"
BACKSLASH == "\\"
Digits == {"0", "1", "2", "3", "4", "5", "6", "7", "8", "9"}

DigitValue(c) ==
    CASE c = "0" -> 0 [] c = "1" -> 1 [] c = "2" -> 2 [] c = "3" -> 3
      [] c = "4" -> 4 [] c = "5" -> 5 [] c = "6" -> 6 [] c = "7" -> 7
      [] c = "8" -> 8 [] c = "9" -> 9

DigitChar(d) ==
    CASE d = 0 -> "0" [] d = 1 -> "1" [] d = 2 -> "2" [] d = 3 -> "3"
      [] d = 4 -> "4" [] d = 5 -> "5" [] d = 6 -> "6" [] d = 7 -> "7"
      [] d = 8 -> "8" [] d = 9 -> "9"

Min(a, b) == IF a < b THEN a ELSE b
Max(a, b) == IF a < b THEN b ELSE a

\* String.prototype.startsWith
StartsWith(s, prefix) ==
    Len(s) >= Len(prefix) /\ SubSeq(s, 1, Len(prefix)) = prefix

\* String.prototype.indexOf(c, from) for a one-character c: 0-based, -1 if absent
IndexOf(s, c, from) ==
    LET hits == {i \in Max(from, 0) .. Len(s) - 1 : s[i + 1] = c}
    IN  IF hits = {} THEN -1 ELSE CHOOSE i \in hits : \A j \in hits : i <= j

\* String.prototype.includes for a one-character c
Includes(s, c) == \E i \in 1 .. Len(s) : s[i] = c

\* the bounds clamped but never swapped, as String.prototype.slice reads
\* two non-negative bounds: empty when start > end
SubstringNoSwap(s, start, end) ==
    LET a == Min(Max(start, 0), Len(s))
        b == Min(Max(end, 0), Len(s))
    IN  IF a > b THEN <<>> ELSE SubSeq(s, a + 1, b)

\* String.prototype.substring(start, end): both bounds are clamped to
\* 0..length and swapped when start > end
Substring(s, start, end) ==
    LET a == Min(Max(start, 0), Len(s))
        b == Min(Max(end, 0), Len(s))
    IN  SubSeq(s, Min(a, b) + 1, Max(a, b))

\* String.prototype.substring(start)
SubstringFrom(s, start) == Substring(s, start, Len(s))

\* Array.prototype.join
RECURSIVE Join(_, _)
Join(parts, sep) ==
    IF parts = <<>> THEN <<>>
    ELSE IF Len(parts) = 1 THEN parts[1]
    ELSE parts[1] \o sep \o Join(Tail(parts), sep)

----------------------------------------------------------------------------
(* Delimiter resolution *)

CUSTOM_DELIMITER_PREFIX == <<"/", "/">>
MAX_VALID_NUMBER == 1000
NEGATIVE_ERROR_MESSAGE == "Negative numbers not allowed"

\* a check that never takes the short cut
isEmptyInputNever(in) == FALSE

isEmptyInput(in) == in = <<>>

hasCustomDelimiter(numbers) == StartsWith(numbers, CUSTOM_DELIMITER_PREFIX)

hasBracketNotation(delimiterPart) ==
    Includes(delimiterPart, "[") /\ Includes(delimiterPart, "]")

\* null is modelled as the record with found = FALSE
NoBracketPair == [found |-> FALSE, startIndex |-> -1, endIndex |-> -1]

\* findNextBracketPair once startBracket is known
BracketPairAt(startBracket, endBracket) ==
    IF endBracket = -1 THEN NoBracketPair
    ELSE [found |-> TRUE, startIndex |-> startBracket, endIndex |-> endBracket]

BracketPairFrom(delimiterPart, startBracket) ==
    IF startBracket = -1 THEN NoBracketPair
    ELSE BracketPairAt(startBracket, IndexOf(delimiterPart, "]", startBracket))

\* the closing bracket searched from startIndex instead of from the
\* opening bracket
findBracketsFromStart(delimiterPart, startIndex) ==
    IF IndexOf(delimiterPart, "[", startIndex) = -1 THEN NoBracketPair
    ELSE BracketPairAt(IndexOf(delimiterPart, "[", startIndex),
                       IndexOf(delimiterPart, "]", startIndex))

findNextBracketPair(delimiterPart, startIndex) ==
    BracketPairFrom(delimiterPart, IndexOf(delimiterPart, "[", startIndex))

extractDelimiterFromBrackets(delimiterPart, bracketPair) ==
    Substring(delimiterPart, bracketPair.startIndex + 1, bracketPair.endIndex)

isValidDelimiter(delimiter) == Len(delimiter) > 0

\* delimiters.push(delimiter) when the delimiter is valid
PushIfValid(delimiters, delimiter) ==
    IF isValidDelimiter(delimiter) THEN Append(delimiters, delimiter)
    ELSE delimiters

\* the while loop of parseMultipleDelimiters from the state
\* (delimiters, currentIndex); LoopBody is one iteration with the bracket
\* pair found
RECURSIVE parseMultipleDelimitersLoop(_, _, _)
RECURSIVE LoopBody(_, _, _)
parseMultipleDelimitersLoop(delimiterPart, delimiters, currentIndex) ==
    IF ~(currentIndex < Len(delimiterPart)) THEN delimiters
    ELSE LoopBody(delimiterPart, delimiters,
                  findNextBracketPair(delimiterPart, currentIndex))

LoopBody(delimiterPart, delimiters, bracketPair) ==
    IF ~bracketPair.found THEN delimiters
    ELSE parseMultipleDelimitersLoop(
             delimiterPart,
             PushIfValid(delimiters,
                         extractDelimiterFromBrackets(delimiterPart, bracketPair)),
             bracketPair.endIndex + 1)

parseMultipleDelimiters(delimiterPart) ==
    parseMultipleDelimitersLoop(delimiterPart, <<>>, 0)

\* the first character of the declaration alone
parseFirstCharacter(delimiterPart) ==
    <<SubSeq(delimiterPart, 1, Min(1, Len(delimiterPart)))>>

parseSingleDelimiter(delimiterPart) == <<delimiterPart>>

extractCustomDelimiters(delimiterPart) ==
    IF hasBracketNotation(delimiterPart)
    THEN parseMultipleDelimiters(delimiterPart)
    ELSE parseSingleDelimiter(delimiterPart)

\* Array.prototype.sort with the comparator (a, b) => b.length - a.length.
\* The sort is stable: an element goes behind every element that is at
\* least as long.
RECURSIVE InsertByLength(_, _)
InsertByLength(sorted, d) ==
    IF sorted = <<>> THEN <<d>>
    ELSE IF Len(sorted[1]) >= Len(d)
    THEN <<sorted[1]>> \o InsertByLength(Tail(sorted), d)
    ELSE <<d>> \o sorted

RECURSIVE SortFrom(_, _)
SortFrom(sorted, rest) ==
    IF rest = <<>> THEN sorted
    ELSE SortFrom(InsertByLength(sorted, rest[1]), Tail(rest))

\* the delimiters in the order declared
keepDeclaredOrder(delimiters) == delimiters

sortDelimitersByLength(delimiters) == SortFrom(<<>>, delimiters)

\* the character class of escapeRegExp: . * + ? ^ $ { } ( ) | [ ] \
RegExpSpecials ==
    {".", "*", "+", "?", "^", "$", "{", "}", "(", ")", "|", "[", "]", BACKSLASH}

\* the text as it is, nothing escaped
leaveUnescaped(string) == string

\* string.replace(/[.*+?^${}()|[\]\\]/g, '\\$&')
RECURSIVE escapeRegExp(_)
escapeRegExp(string) ==
    IF string = <<>> THEN <<>>
    ELSE (IF string[1] \in RegExpSpecials
          THEN <<BACKSLASH, string[1]>>
          ELSE <<string[1]>>) \o escapeRegExp(Tail(string))

escapeDelimiters(delimiters) ==
    [i \in 1 .. Len(delimiters) |-> escapeRegExp(delimiters[i])]

\* A RegExp object: its source text, its flags and its lastIndex property
RegExpObject(source, flags) ==
    [source |-> source, flags |-> flags, lastIndex |-> 0]

\* new RegExp(`${escapedDelimiters.join('|')}|[,\n]`, 'g'): the template
\* literal puts a real line-feed character into the class
buildDelimiterPattern(customDelimiters) ==
    LET sortedDelimiters  == sortDelimitersByLength(customDelimiters)
        escapedDelimiters == escapeDelimiters(sortedDelimiters)
    IN  RegExpObject(Join(escapedDelimiters, <<"|">>) \o <<"|", "[", ",", LF, "]">>,
                     {"g"})

\* the DelimiterConfig of a header once its custom delimiters are known
CustomConfig(customDelimiters, numberString) ==
    [pattern |-> buildDelimiterPattern(customDelimiters),
     numberString |-> numberString,
     static |-> FALSE,
     customDelimiters |-> customDelimiters]

\* parseCustomDelimiterConfiguration once delimiterLineEnd is known
ConfigAt(numbers, delimiterLineEnd) ==
    CustomConfig(extractCustomDelimiters(Substring(numbers, 2, delimiterLineEnd)),
                 SubstringFrom(numbers, delimiterLineEnd + 1))

\* a default pattern that knows the comma only: /[,]/
DefaultPatternCommaOnly == RegExpObject(<<"[", ",", "]">>, {})

\* the value of the static field: /[,\n]/
DefaultPatternObject == RegExpObject(<<"[", ",", LF, "]">>, {})

\* DelimiterConfig.  Beside pattern and numberString the record keeps what
\* the call computed on the way: `static` tells that pattern is the shared
\* static object and not one built for this call, customDelimiters is the
\* array handed to buildDelimiterPattern
parseCustomDelimiterConfiguration(numbers) ==
    ConfigAt(numbers, IndexOf(numbers, LF, 0))

parseDelimiterConfiguration(numbers, defaultPattern) ==
    IF ~hasCustomDelimiter(numbers)
    THEN [pattern |-> defaultPattern, numberString |-> numbers,
          static |-> TRUE, customDelimiters |-> <<>>]
    ELSE parseCustomDelimiterConfiguration(numbers)

----------------------------------------------------------------------------
(* The regular-expression engine behind new RegExp and String.split.       *)
(* It covers the pattern language that delimiter sources can contain:      *)
(* literals, identity escapes, ".", classes, the assertions ^ and $, the   *)
(* greedy quantifiers * + ? and alternation.  Groups are not covered: a    *)
(* source with an unescaped parenthesis is reported as a SyntaxError, as   *)
(* it is for an unbalanced one.                                            *)

Atom(kind, ch, set) == [kind |-> kind, ch |-> ch, set |-> set, q |-> "one"]

Quantified(atom, c) ==
    [atom EXCEPT !.q = CASE c = "*" -> "star" [] c = "+" -> "plus"
                         [] OTHER -> "opt"]

\* one step of the pattern parser at 1-based position i, with the
\* alternative being read (cur) and the alternatives read so far (alts):
\* the position behind what was read, cur and alts afterwards, and whether
\* the text was well formed
ParseStep(src, i, cur, alts) ==
    LET c     == src[i]
        close == IndexOf(src, "]", i)  \* i is the 0-based index behind "["
        neg   == close > i /\ src[i + 1] = "^"
        bad   == [ok |-> FALSE, i |-> Len(src) + 1, cur |-> cur, alts |-> alts]
        atom(a, n) == [ok |-> TRUE, i |-> i + n, cur |-> Append(cur, a),
                       alts |-> alts]
    IN  CASE c = BACKSLASH ->
               IF i = Len(src) THEN bad ELSE atom(Atom("lit", src[i + 1], {}), 2)
          [] c = "[" ->
               IF close = -1 THEN bad
               ELSE atom(Atom(IF neg THEN "nclass" ELSE "class", "",
                              {src[k] : k \in (IF neg THEN i + 2 ELSE i + 1) .. close}),
                         close + 2 - i)
          [] c = "|" -> [ok |-> TRUE, i |-> i + 1, cur |-> <<>>,
                         alts |-> Append(alts, cur)]
          [] c = "." -> atom(Atom("any", "", {}), 1)
          [] c = "^" -> atom(Atom("bol", "", {}), 1)
          [] c = "$" -> atom(Atom("eol", "", {}), 1)
          [] c \in {"*", "+", "?"} ->
               IF cur = <<>> \/ cur[Len(cur)].q # "one"
                  \/ cur[Len(cur)].kind \in {"bol", "eol"}
               THEN bad                         \* nothing to repeat
               ELSE [ok |-> TRUE, i |-> i + 1,
                     cur |-> [cur EXCEPT ![Len(cur)] = Quantified(@, c)],
                     alts |-> alts]
          [] c \in {"(", ")"} -> bad
          [] OTHER -> atom(Atom("lit", c, {}), 1)

RECURSIVE ParsePattern(_, _, _, _)
ParsePattern(src, i, cur, alts) ==
    IF i > Len(src) THEN [ok |-> TRUE, alts |-> Append(alts, cur)]
    ELSE LET st == ParseStep(src, i, cur, alts)
         IN  IF ~st.ok THEN [ok |-> FALSE, alts |-> <<>>]
             ELSE ParsePattern(src, st.i, st.cur, st.alts)

CompilePattern(source) == ParsePattern(source, 1, <<>>, <<>>)

AtomMatches(atom, c) ==
    CASE atom.kind = "lit"    -> c = atom.ch
      [] atom.kind = "any"    -> c \notin {LF, "\r"}
      [] atom.kind = "class"  -> c \in atom.set
      [] atom.kind = "nclass" -> c \notin atom.set
      [] OTHER                -> FALSE

\* how many consecutive characters from 0-based pos the atom matches
RECURSIVE Run(_, _, _)
Run(atom, S, pos) ==
    IF pos < Len(S) /\ AtomMatches(atom, S[pos + 1])
    THEN 1 + Run(atom, S, pos + 1)
    ELSE 0

\* a single atom or assertion at 0-based pos: the position behind it, or -1
Advance(a, S, pos) ==
    CASE a.kind = "bol" -> IF pos = 0 THEN pos ELSE -1
      [] a.kind = "eol" -> IF pos = Len(S) THEN pos ELSE -1
      [] OTHER -> IF pos < Len(S) /\ AtomMatches(a, S[pos + 1]) THEN pos + 1
                  ELSE -1

\* the first of two attempts that succeeds
OrElse(first, second) == IF first # -1 THEN first ELSE second

\* match atoms[k..] at 0-based pos: the end index of the match, or -1.
\* MatchRest continues behind atoms[k] matched once; Repeat gives atoms[k]
\* up to n characters; TryCount is the greedy choice: n characters, then
\* fewer on failure
RECURSIVE MatchFrom(_, _, _, _)
RECURSIVE MatchRest(_, _, _, _)
RECURSIVE Repeat(_, _, _, _, _)
RECURSIVE TryCount(_, _, _, _, _, _)
MatchFrom(atoms, k, S, pos) ==
    IF k > Len(atoms) THEN pos
    ELSE IF atoms[k].q = "one" \/ atoms[k].kind \in {"bol", "eol"}
    THEN MatchRest(atoms, k, S, Advance(atoms[k], S, pos))
    ELSE Repeat(atoms, k, S, pos, Run(atoms[k], S, pos))

MatchRest(atoms, k, S, next) ==
    IF next = -1 THEN -1 ELSE MatchFrom(atoms, k + 1, S, next)

Repeat(atoms, k, S, pos, n) ==
    TryCount(atoms, k, S, pos,
             IF atoms[k].q = "opt" THEN Min(n, 1) ELSE n,
             IF atoms[k].q = "plus" THEN 1 ELSE 0)

TryCount(atoms, k, S, pos, n, least) ==
    IF n < least THEN -1
    ELSE OrElse(MatchFrom(atoms, k + 1, S, pos + n),
                TryCount(atoms, k, S, pos, n - 1, least))

\* a sticky match at 0-based pos: alternatives are tried left to right and
\* the first that matches decides
RECURSIVE MatchAlternatives(_, _, _, _)
MatchAlternatives(alts, n, S, pos) ==
    IF n > Len(alts) THEN -1
    ELSE OrElse(MatchFrom(alts[n], 1, S, pos),
                MatchAlternatives(alts, n + 1, S, pos))

MatchAt(alts, S, pos) == MatchAlternatives(alts, 1, S, pos)

\* the loop of RegExp.prototype[Symbol.split]: p is the end of the last
\* delimiter consumed, q the scan position, A the parts so far; `last` is
\* where the last match ended.  SplitStep is the loop body with the end e
\* of the match at q (-1: no match)
RECURSIVE SplitLoop(_, _, _, _, _, _)
RECURSIVE SplitStep(_, _, _, _, _, _, _)
SplitLoop(alts, S, p, q, A, last) ==
    IF q >= Len(S)
    THEN [parts |-> Append(A, SubSeq(S, p + 1, Len(S))), last |-> last]
    ELSE SplitStep(alts, S, p, q, A, last, Min(MatchAt(alts, S, q), Len(S)))

SplitStep(alts, S, p, q, A, last, e) ==
    IF e = -1 \/ e = p
    THEN SplitLoop(alts, S, p, q + 1, A, last)
    ELSE SplitLoop(alts, S, e, e, Append(A, SubSeq(S, p + 1, q)), e)

SplitFrom(alts, S, start) ==
    IF Len(S) = 0
    THEN [parts |-> IF MatchAt(alts, S, 0) # -1 THEN <<>> ELSE <<S>>, last |-> 0]
    ELSE SplitLoop(alts, S, Min(start, Len(S)), Min(start, Len(S)), <<>>, 0)

\* the pattern object with lastIndex set
WithLastIndex(rx, r) ==
    [parts |-> r.parts, pattern |-> [rx EXCEPT !.lastIndex = r.last]]

\* the outcome of a split that leaves the pattern object as it was
Untouched(rx, r) == [parts |-> r.parts, pattern |-> rx]

\* A split that matches with the pattern object itself: it scans from the
\* object's lastIndex and leaves lastIndex where the last delimiter ended
RegExpSplitInPlace(rx, S) ==
    WithLastIndex(rx, SplitFrom(CompilePattern(rx.source).alts, S, rx.lastIndex))

\* String.prototype.split(rx): the scan runs on a sticky copy of the
\* pattern made for this split, from index 0; the pattern object passed in
\* is neither read for its lastIndex nor written
RegExpSplit(rx, S) ==
    Untouched(rx, SplitFrom(CompilePattern(rx.source).alts, S, 0))

----------------------------------------------------------------------------
(* Tokenization, numeric conversion and validation *)

splitNumberString(delimiterConfig) ==
    RegExpSplit(delimiterConfig.pattern, delimiterConfig.numberString)

RECURSIVE stopAtEmptyPart(_)
\* the parts in front of the first empty one, as a loop that breaks where
\* it should continue
stopAtEmptyPart(parts) ==
    IF parts = <<>> \/ parts[1] = <<>> THEN <<>>
    ELSE <<parts[1]>> \o stopAtEmptyPart(Tail(parts))

filterEmptyParts(parts) == SelectSeq(parts, LAMBDA part : part # <<>>)

NaN == [nan |-> TRUE, value |-> 0]
Num(n) == [nan |-> FALSE, value |-> n]

WhiteSpace == {" ", "\t", LF, "\r"}

RECURSIVE TrimStart(_)
TrimStart(s) ==
    IF s # <<>> /\ s[1] \in WhiteSpace THEN TrimStart(Tail(s)) ELSE s

\* the value of the longest prefix of s made of digits, read after acc
RECURSIVE DigitsValue(_, _)
DigitsValue(s, acc) ==
    IF s # <<>> /\ s[1] \in Digits
    THEN DigitsValue(Tail(s), 10 * acc + DigitValue(s[1]))
    ELSE acc

\* parseInt(part, 10): leading white space is skipped, one sign is read,
\* then the longest run of digits; NaN when that run is empty
Signed(sign, body) ==
    IF body = <<>> \/ body[1] \notin Digits THEN NaN
    ELSE Num(sign * DigitsValue(body, 0))

Trimmed(t) ==
    IF t # <<>> /\ t[1] = "-" THEN Signed(-1, Tail(t))
    ELSE IF t # <<>> /\ t[1] = "+" THEN Signed(1, Tail(t))
    ELSE Signed(1, t)

parseInt(part) == Trimmed(TrimStart(part))

convertToNumbers(parts) == [i \in 1 .. Len(parts) |-> parseInt(parts[i])]

\* the numbers that are not NaN, as integers
filterValidNumbers(numbers) ==
    LET kept == SelectSeq(numbers, LAMBDA num : ~num.nan)
    IN  [i \in 1 .. Len(kept) |-> kept[i].value]

extractNumbers(delimiterConfig) ==
    LET split      == splitNumberString(delimiterConfig)
        cleanParts == filterEmptyParts(split.parts)
        numbers    == convertToNumbers(cleanParts)
    IN  filterValidNumbers(numbers)

\* the first negative number alone, as find would give instead of filter
findFirstNegative(numbers) ==
    LET negatives == SelectSeq(numbers, LAMBDA num : num < 0)
    IN  IF negatives = <<>> THEN <<>> ELSE <<negatives[1]>>

findNegativeNumbers(numbers) == SelectSeq(numbers, LAMBDA num : num < 0)

\* the bound taken as exclusive
filterBelowMaxValue(numbers) ==
    SelectSeq(numbers, LAMBDA num : num < MAX_VALID_NUMBER)

filterByMaxValue(numbers) ==
    SelectSeq(numbers, LAMBDA num : num <= MAX_VALID_NUMBER)

validateNumbers(numbers) ==
    [validNumbers    |-> filterByMaxValue(numbers),
     negativeNumbers |-> findNegativeNumbers(numbers)]

\* Number.prototype.toString for an integer, as characters
RECURSIVE NatToString(_)
NatToString(n) ==
    IF n < 10 THEN <<DigitChar(n)>>
    ELSE NatToString(n \div 10) \o <<DigitChar(n % 10)>>

NumberToString(n) == IF n < 0 THEN <<"-">> \o NatToString(-n) ELSE NatToString(n)

\* negative numbers let through: nothing is thrown
handleNegativeNumbersSilently(negativeNumbers) == <<>>

\* the message of the Error thrown by handleNegativeNumbers; the empty
\* sequence when nothing is thrown
handleNegativeNumbers(negativeNumbers) ==
    IF Len(negativeNumbers) > 0
    THEN LET negativeList ==
                 Join([i \in 1 .. Len(negativeNumbers) |->
                          NumberToString(negativeNumbers[i])], <<",">>)
         IN  <<NEGATIVE_ERROR_MESSAGE, " ">> \o negativeList
    ELSE <<>>

RECURSIVE calculateSum(_)
calculateSum(validNumbers) ==
    IF validNumbers = <<>> THEN 0
    ELSE validNumbers[1] + calculateSum(Tail(validNumbers))

----------------------------------------------------------------------------
(* The add operation *)

Returned(n) == [kind |-> "sum", value |-> n]
Thrown(name, message) == [kind |-> "error", name |-> name, message |-> message]
Pending == [kind |-> "pending"]

AllStages == {"parseDelimiterConfiguration", "extractNumbers",
              "validateNumbers", "handleNegativeNumbers", "calculateSum"}

\* what one run of add leaves behind: the outcome, the stages executed, the
\* custom delimiters, the parts of the split, the static pattern object
Run4(out, stages, delimiterConfig, split, defaultPattern) ==
    [outcome |-> out, ran |-> stages,
     customDelimiters |-> delimiterConfig.customDelimiters,
     parts |-> split.parts,
     defaultPattern |-> IF delimiterConfig.static THEN split.pattern
                        ELSE defaultPattern]

\* lines 71-74 of add with the message handleNegativeNumbers throws
\* (empty: it returns)
addFinish(validNumbers, message) ==
    IF message # <<>>
    THEN [outcome |-> Thrown("Error", message),
          ran |-> AllStages \ {"calculateSum"}]
    ELSE [outcome |-> Returned(calculateSum(validNumbers)), ran |-> AllStages]

addValidated(validationResult) ==
    addFinish(validationResult.validNumbers,
              handleNegativeNumbers(validationResult.negativeNumbers))

Run3(fin, delimiterConfig, split, defaultPattern) ==
    Run4(fin.outcome, fin.ran, delimiterConfig, split, defaultPattern)

\* lines 67-74 of add with the delimiter configuration
addConfigured(delimiterConfig, defaultPattern) ==
    IF ~CompilePattern(delimiterConfig.pattern.source).ok
    THEN Run4(Thrown("SyntaxError", <<>>), {"parseDelimiterConfiguration"},
              delimiterConfig, [parts |-> <<>>, pattern |-> defaultPattern],
              defaultPattern)
    ELSE Run3(addValidated(validateNumbers(extractNumbers(delimiterConfig))),
              delimiterConfig, splitNumberString(delimiterConfig),
              defaultPattern)

\* One run of add(numbers) with the static pattern object as it stands
addRun(numbers, defaultPattern) ==
    IF isEmptyInput(numbers)
    THEN [outcome |-> Returned(0), ran |-> {}, customDelimiters |-> <<>>,
          parts |-> <<>>, defaultPattern |-> defaultPattern]
    ELSE addConfigured(parseDelimiterConfiguration(numbers, defaultPattern),
                       defaultPattern)

----------------------------------------------------------------------------
(* The callers: how arguments are assembled *)

MaxTokens == 3          \* fields of a payload without a header
MaxCustomTokens == 2    \* fields of a payload behind a header
Instances == {1, 2}

Str1(a) == <<a>>
Str2(a, b) == <<a, b>>
Str3(a, b, c) == <<a, b, c>>

\* a token: its text and, when the text is a decimal integer, its value
Number(text, value) == [text |-> text, numeric |-> TRUE, value |-> value]
NoToken == [text |-> <<>>, numeric |-> FALSE, value |-> 0]

PlainTokens ==
    {Number(<<"0">>, 0), Number(<<"1">>, 1),
     Number(<<"1", "0", "0", "0">>, 1000), Number(<<"1", "0", "0", "1">>, 1001),
     Number(<<"-", "2">>, -2), Number(<<"-", "1", "0", "0", "1">>, -1001),
     NoToken}

CustomTokens ==
    {Number(<<"1">>, 1), Number(<<"1", "2">>, 12), Number(<<"-", "2">>, -2),
     NoToken}

DefaultDelimiters == {<<",">>, <<LF>>}

\* a header: none, "//" + decl + line-feed with decl free of brackets pairs
\* ("single"), or with decl = pre [g1][g2]... post ("brackets")
NoHeader == [kind |-> "none", decl |-> <<>>, pre |-> <<>>, groups |-> <<>>,
             post |-> <<>>]
Single(decl) == [kind |-> "single", decl |-> decl, pre |-> <<>>,
                 groups |-> <<>>, post |-> <<>>]
Brackets(pre, groups, post) ==
    [kind |-> "brackets", decl |-> <<>>, pre |-> pre, groups |-> groups,
     post |-> post]

SingleDeclarations ==
    {<<";">>, <<"-">>, <<".">>, <<"|">>, <<"*">>, <<"+">>, <<"?">>, <<"^">>,
     <<"$">>, <<"(">>, <<")">>, <<"{">>, <<"}">>, <<BACKSLASH>>, <<"[">>,
     <<"]">>, <<"*", "*", "*">>, <<".", "*">>, <<";", ";">>, <<>>}

BracketDeclarations ==
    {Brackets(<<>>, <<Str3("*", "*", "*")>>, <<>>),
     Brackets(<<>>, <<Str1("*"), Str1("%")>>, <<>>),
     Brackets(<<>>, <<Str3("*", "*", "*"), Str3("%", "%", "%")>>, <<>>),
     Brackets(<<>>, <<Str1("*"), Str2("*", "*")>>, <<>>),
     Brackets(<<>>, <<Str2("*", "*"), Str1("*")>>, <<>>),
     Brackets(<<>>, <<Str1("a"), Str2("a", "b")>>, <<>>),
     Brackets(<<>>, <<Str2("a", "b"), Str1("a")>>, <<>>),
     Brackets(<<>>, <<Str1("."), Str1("|")>>, <<>>),
     Brackets(<<>>, <<Str2("[", ";")>>, <<>>),
     Brackets(<<"x">>, <<Str1(";")>>, <<"y">>),
     Brackets(<<"]">>, <<Str1(";"), <<>>>>, <<"[">>),
     Brackets(<<>>, <<Str1(";"), Str1("%"), Str1("a")>>, <<>>),
     Brackets(<<>>, << <<>> >>, <<>>),
     Brackets(<<"]">>, <<>>, <<"[">>)}

Headers == {NoHeader} \union {Single(d) : d \in SingleDeclarations}
               \union BracketDeclarations

RECURSIVE Concat(_)
Concat(ss) == IF ss = <<>> THEN <<>> ELSE ss[1] \o Concat(Tail(ss))

DeclarationText(h) ==
    IF h.kind = "single" THEN h.decl
    ELSE h.pre
         \o Concat([i \in 1 .. Len(h.groups) |-> <<"[">> \o h.groups[i] \o <<"]">>])
         \o h.post

HeaderText(h) ==
    IF h.kind = "none" THEN <<>>
    ELSE CUSTOM_DELIMITER_PREFIX \o DeclarationText(h) \o <<LF>>

\* the custom delimiters the caller declares with the header
Declared(h) ==
    IF h.kind = "single" THEN <<h.decl>>
    ELSE SelectSeq(h.groups, LAMBDA g : g # <<>>)

Range(f) == {f[i] : i \in DOMAIN f}

\* the separators a caller puts between tokens
Separators(h) == DefaultDelimiters \union (Range(Declared(h)) \ {<<>>})

\* payloads of n fields, a field being a token and the separator behind it;
\* only the last field may go without a separator
Fields(n, tokens, seps) ==
    {f \in [1 .. n -> [tok : tokens, sep : seps \union {<<>>}]] :
        \A i \in 1 .. n - 1 : f[i].sep # <<>>}

PayloadText(fields) ==
    Concat([i \in 1 .. Len(fields) |-> fields[i].tok.text \o fields[i].sep])

\* what a caller writes behind a header h
TokensFor(h) == IF h = NoHeader THEN PlainTokens ELSE CustomTokens
MaxFieldsFor(h) == IF h = NoHeader THEN MaxTokens ELSE MaxCustomTokens

\* the arguments the callers assemble
IsShape(s) ==
    \E h \in Headers : \E n \in 0 .. MaxFieldsFor(h) :
        \E f \in Fields(n, TokensFor(h), Separators(h)) :
            s = [header |-> h, fields |-> f]

Render(s) == HeaderText(s.header) \o PayloadText(s.fields)

----------------------------------------------------------------------------
(* The state machine *)

\* what the callers have seen so far: for each argument the outcome of the
\* first call with it and the number of calls made with it
NoSeen == [x \in {} |-> [first |-> Pending, calls |-> 0]]

Init ==
    /\ IsShape(shape)
    /\ input = Render(shape)
    /\ pc = "call"
    /\ outcome = Pending
    /\ ran = {}
    /\ delimitersUsed = <<>>
    /\ partsSplit = <<>>
    /\ instance = 1
    /\ DEFAULT_DELIMITER_PATTERN = DefaultPatternObject
    /\ seen = NoSeen

\* calculator.add(input) on the instance chosen by the caller
Leaves(r) ==
    /\ outcome' = r.outcome
    /\ ran' = r.ran
    /\ delimitersUsed' = r.customDelimiters
    /\ partsSplit' = r.parts
    /\ DEFAULT_DELIMITER_PATTERN' = r.defaultPattern
    /\ seen' = IF input \in DOMAIN seen
               THEN [seen EXCEPT ![input].calls = @ + 1]
               ELSE seen @@ (input :> [first |-> r.outcome, calls |-> 1])

add ==
    /\ pc = "call"
    /\ Leaves(addRun(input, DEFAULT_DELIMITER_PATTERN))
    /\ pc' = "returned"
    /\ UNCHANGED <<shape, input, instance>>

Next == add

Spec == Init /\ [][Next]_vars

----------------------------------------------------------------------------
(* Any string as the argument: add(numbers: string) takes what it is given, *)
(* with or without the "//" marker in front                                 *)

MaxRawLen == 4

RawAlphabet == {"1", "a", ",", LF, ";", "[", "]", "-"}

\* such an argument is not assembled from a header and fields
RawShape == [header |-> [kind |-> "raw", decl |-> <<>>, pre |-> <<>>,
                         groups |-> <<>>, post |-> <<>>],
             fields |-> <<>>]

IsRaw(in) ==
    \E k \in 0 .. MaxRawLen : \E body \in [1 .. k -> RawAlphabet] :
        \E marker \in {<<>>, CUSTOM_DELIMITER_PREFIX} : in = marker \o body

InitRaw ==
    /\ IsRaw(input)
    /\ shape = RawShape
    /\ pc = "call"
    /\ outcome = Pending
    /\ ran = {}
    /\ delimitersUsed = <<>>
    /\ partsSplit = <<>>
    /\ instance = 1
    /\ DEFAULT_DELIMITER_PATTERN = DefaultPatternObject
    /\ seen = NoSeen

SpecRaw == InitRaw /\ [][Next]_vars

----------------------------------------------------------------------------
(* A suite of calls: each test makes a fresh calculator and calls add, one *)
(* test after the other in the same process                                *)

MaxCalls == 2

Field(tok, sep) == [tok |-> tok, sep |-> sep]

CallPool ==
    {[header |-> NoHeader, fields |-> <<>>],
     [header |-> NoHeader,
      fields |-> <<Field(Number(<<"1">>, 1), <<",">>),
                   Field(Number(<<"1", "0", "0", "0">>, 1000), <<>>)>>],
     [header |-> NoHeader,
      fields |-> <<Field(Number(<<"1">>, 1), <<LF>>),
                   Field(Number(<<"-", "2">>, -2), <<",">>)>>],
     [header |-> Single(<<";">>),
      fields |-> <<Field(Number(<<"1">>, 1), <<";">>),
                   Field(Number(<<"1", "2">>, 12), <<>>)>>],
     [header |-> Single(<<";">>),
      fields |-> <<Field(Number(<<"-", "2">>, -2), <<";">>),
                   Field(Number(<<"1">>, 1), <<",">>)>>],
     [header |-> Brackets(<<>>, <<Str1("*"), Str2("*", "*")>>, <<>>),
      fields |-> <<Field(Number(<<"1">>, 1), <<"*", "*">>),
                   Field(Number(<<"1", "2">>, 12), <<>>)>>]}

InitCalls ==
    /\ shape \in CallPool
    /\ input = Render(shape)
    /\ pc = "call"
    /\ outcome = Pending
    /\ ran = {}
    /\ delimitersUsed = <<>>
    /\ partsSplit = <<>>
    /\ instance = 1
    /\ DEFAULT_DELIMITER_PATTERN = DefaultPatternObject
    /\ seen = NoSeen

\* the next test: a calculator (new or the one at hand) and an argument
NewCall ==
    /\ pc = "returned"
    /\ \E s \in CallPool :
          /\ Render(s) \in DOMAIN seen => seen[Render(s)].calls < MaxCalls
          /\ shape' = s
          /\ input' = Render(s)
    /\ instance' \in Instances
    /\ pc' = "call"
    /\ outcome' = Pending
    /\ ran' = {}
    /\ delimitersUsed' = <<>>
    /\ partsSplit' = <<>>
    /\ UNCHANGED <<DEFAULT_DELIMITER_PATTERN, seen>>

NextCalls == add \/ NewCall

SpecCalls == InitCalls /\ [][NextCalls]_vars

----------------------------------------------------------------------------
(* What the claims are stated with *)

Done == pc = "returned"

AllTokens == PlainTokens \union CustomTokens

\* the text is one of the decimal integers the callers write
Known(text) == \E t \in AllTokens : t.numeric /\ t.text = text

ValueOf(text) == (CHOOSE t \in AllTokens : t.numeric /\ t.text = text).value

RECURSIVE Total(_)
Total(values) == IF values = <<>> THEN 0 ELSE values[1] + Total(Tail(values))

\* the values the caller wrote into the payload, in order
Written(fields) == [i \in 1 .. Len(fields) |-> fields[i].tok.value]

\* every field holds a number in 0 .. 1000
AllValid(fields) ==
    \A i \in 1 .. Len(fields) :
        /\ fields[i].tok.numeric
        /\ fields[i].tok.value >= 0
        /\ fields[i].tok.value <= 1000

\* numbers joined by separators of seps: one separator between neighbours,
\* none behind the last
JoinedBy(fields, seps) ==
    /\ Len(fields) >= 1
    /\ fields[Len(fields)].sep = <<>>
    /\ \A i \in 1 .. Len(fields) - 1 : fields[i].sep \in seps

\* the non-empty parts of the split, all of them integers the callers write
Tokens == SelectSeq(partsSplit, LAMBDA part : part # <<>>)
TokensKnown == \A i \in 1 .. Len(Tokens) : Known(Tokens[i])
TokenValues == [i \in 1 .. Len(Tokens) |-> ValueOf(Tokens[i])]

NegativeMessage(texts) ==
    <<"Negative numbers not allowed", " ">> \o Join(texts, <<",">>)

----------------------------------------------------------------------------
(* C1: without a header, one or more integers of 0 .. 1000 joined by commas *)
(* and line-feeds in any mix give exactly their arithmetic total.           *)
C1_PlainSum ==
    (Done /\ shape.header = NoHeader /\ AllValid(shape.fields)
          /\ JoinedBy(shape.fields, DefaultDelimiters))
        => outcome = Returned(Total(Written(shape.fields)))

C1_Witness ==
    /\ Done /\ shape.header = NoHeader /\ AllValid(shape.fields)
    /\ JoinedBy(shape.fields, DefaultDelimiters)
    /\ Len(shape.fields) = 3
    /\ shape.fields[1].sep = <<",">> /\ shape.fields[2].sep = <<LF>>
    /\ outcome = Returned(2001)

(* C2: when a token parses to a negative integer the call fails, and the   *)
(* message is 'Negative numbers not allowed ' followed by every negative   *)
(* value in input order, repeated values repeated, whatever the magnitude  *)
(* and whatever the other tokens.                                          *)
C2_NegativesListed ==
    (Done /\ TokensKnown /\ \E i \in 1 .. Len(Tokens) : TokenValues[i] < 0)
        => outcome = Thrown("Error",
               NegativeMessage(SelectSeq(Tokens, LAMBDA t : ValueOf(t) < 0)))

C2_Witness ==
    /\ Done
    /\ Tokens = << <<"-", "2">>, <<"1", "0", "0", "1">>, <<"-", "1", "0", "0", "1">> >>
    /\ outcome = Thrown("Error",
           <<"Negative numbers not allowed", " ", "-", "2", ",",
             "-", "1", "0", "0", "1">>)

(* C3: with no negative token, tokens above 1000 are left out silently and *)
(* tokens of 0 .. 1000 are added: 1000 counts, 1001 does not, and tokens   *)
(* that are all above 1000 give 0.                                         *)
C3_LargeIgnored ==
    (Done /\ TokensKnown /\ \A i \in 1 .. Len(Tokens) : TokenValues[i] >= 0)
        => outcome = Returned(Total(SelectSeq(TokenValues, LAMBDA v : v <= 1000)))

C3_Witness ==
    /\ Done
    /\ Tokens = << <<"1", "0", "0", "0">>, <<"1", "0", "0", "1">>, <<"1">> >>
    /\ outcome = Returned(1001)

----------------------------------------------------------------------------
(* Literal tokenization: the scanner of the design, which at every position *)
(* consumes the longest delimiter that occurs there                         *)

OccursAt(S, d, pos) ==
    pos + Len(d) <= Len(S) /\ SubSeq(S, pos + 1, pos + Len(d)) = d

Occurs(S, d) == \E pos \in 0 .. Len(S) : OccursAt(S, d, pos)

RECURSIVE Scan(_, _, _, _, _)
Scan(S, delims, pos, acc, out) ==
    IF pos >= Len(S) THEN Append(out, acc)
    ELSE LET here == {d \in delims : OccursAt(S, d, pos)}
         IN  IF here = {}
             THEN Scan(S, delims, pos + 1, Append(acc, S[pos + 1]), out)
             ELSE LET d == CHOOSE x \in here : \A y \in here : Len(y) <= Len(x)
                  IN  Scan(S, delims, pos + Len(d), <<>>, Append(out, acc))

LongestMatchSplit(S, delims) == Scan(S, delims, 0, <<>>, <<>>)

\* every declared delimiter is non-empty and none occurs inside a token
Unambiguous(s) ==
    \A k \in 1 .. Len(Declared(s.header)) : \A i \in 1 .. Len(s.fields) :
        ~Occurs(s.fields[i].tok.text, Declared(s.header)[k])

NonEmptyDeclared(h) ==
    /\ Declared(h) # <<>>
    /\ \A k \in 1 .. Len(Declared(h)) : Declared(h)[k] # <<>>

\* two declared delimiters of which one starts with the other
SharesPrefix(h) ==
    \E j, k \in 1 .. Len(Declared(h)) :
        /\ Len(Declared(h)[j]) < Len(Declared(h)[k])
        /\ SubSeq(Declared(h)[k], 1, Len(Declared(h)[j])) = Declared(h)[j]

\* every character of every declared delimiter is special in a pattern
OnlySpecials(h) ==
    \A k \in 1 .. Len(Declared(h)) : \A i \in 1 .. Len(Declared(h)[k]) :
        Declared(h)[k][i] \in
            {".", "*", "+", "?", "|", "^", "$", "(", ")", "{", "}", "\\"}

\* pre [g1][g2]... post reads as the groups g1, g2, ... and nothing else
GroupsReadable(h) ==
    /\ ~Includes(h.pre, "[")
    /\ \A k \in 1 .. Len(h.groups) : ~Includes(h.groups[k], "]")
    /\ ~(\E i, j \in 1 .. Len(h.post) :
            i < j /\ h.post[i] = "[" /\ h.post[j] = "]")
    /\ Includes(DeclarationText(h), "[") /\ Includes(DeclarationText(h), "]")

(* C4: a declaration D that does not hold both brackets is, whole and      *)
(* whatever its length, the one custom delimiter, and valid numbers joined *)
(* by D (which does not occur inside them) give their total.               *)
C4_WholeDeclaration ==
    (Done /\ shape.header.kind = "single")
        => /\ delimitersUsed = <<shape.header.decl>>
           /\ (AllValid(shape.fields) /\ Unambiguous(shape)
               /\ JoinedBy(shape.fields, {shape.header.decl}))
                  => outcome = Returned(Total(Written(shape.fields)))

C4_Witness ==
    /\ Done /\ shape.header = Single(<<"*", "*", "*">>)
    /\ AllValid(shape.fields) /\ Unambiguous(shape)
    /\ JoinedBy(shape.fields, {shape.header.decl})
    /\ Len(shape.fields) = 2
    /\ delimitersUsed = << <<"*", "*", "*">> >>
    /\ outcome = Returned(13)

(* C5: behind every header, bracketed or not, the delimiters are comma,    *)
(* line-feed and the declared ones, so numbers separated by a mix of them  *)
(* give their total.                                                       *)
C5_DefaultsStay ==
    (Done /\ shape.header.kind # "none" /\ AllValid(shape.fields)
          /\ Unambiguous(shape)
          /\ JoinedBy(shape.fields, Separators(shape.header)))
        => outcome = Returned(Total(Written(shape.fields)))

(* C6: a declaration with both brackets declares exactly the non-empty     *)
(* texts between each '[' and the next ']' behind it, scanned left to      *)
(* right; any number of them, of any length, and valid numbers joined by   *)
(* them give their total.                                                  *)
C6_BracketGroups ==
    (Done /\ shape.header.kind = "brackets" /\ GroupsReadable(shape.header))
        => /\ delimitersUsed = Declared(shape.header)
           /\ (Declared(shape.header) # <<>> /\ AllValid(shape.fields)
               /\ Unambiguous(shape)
               /\ JoinedBy(shape.fields, Range(Declared(shape.header))))
                  => outcome = Returned(Total(Written(shape.fields)))

C6_Witness ==
    /\ Done
    /\ shape.header = Brackets(<<>>, <<Str3("*", "*", "*"), Str3("%", "%", "%")>>, <<>>)
    /\ delimitersUsed = << <<"*", "*", "*">>, <<"%", "%", "%">> >>
    /\ Len(shape.fields) = 2 /\ shape.fields[1].sep = <<"%", "%", "%">>
    /\ AllValid(shape.fields) /\ JoinedBy(shape.fields, Range(Declared(shape.header)))
    /\ outcome = Returned(13)

(* C7: where several delimiters match at a scan position the longest one   *)
(* is consumed, in whatever order they were declared: a delimiter never    *)
(* pre-empts a longer one that starts with it.                             *)
C7_LongestWins ==
    (Done /\ NonEmptyDeclared(shape.header) /\ SharesPrefix(shape.header))
        => partsSplit = LongestMatchSplit(PayloadText(shape.fields),
                                          Separators(shape.header))

C7_Witness ==
    /\ Done
    /\ shape.header = Brackets(<<>>, <<Str1("*"), Str2("*", "*")>>, <<>>)
    /\ PayloadText(shape.fields) = <<"1", "*", "*", "1", "2">>
    /\ partsSplit = << <<"1">>, <<"1", "2">> >>

(* C8: a declared delimiter made of pattern metacharacters is matched as   *)
(* that exact character sequence: the payload is split where it occurs     *)
(* and nowhere else.                                                       *)
C8_LiteralDelimiters ==
    (Done /\ NonEmptyDeclared(shape.header) /\ OnlySpecials(shape.header))
        => /\ outcome.kind # "error" \/ outcome.name = "Error"
           /\ partsSplit = LongestMatchSplit(PayloadText(shape.fields),
                                             Separators(shape.header))

C8_Witness ==
    /\ Done
    /\ shape.header = Single(<<".">>)
    /\ PayloadText(shape.fields) = <<"1", "2", ".", "1">>
    /\ partsSplit = << <<"1", "2">>, <<"1">> >>
    /\ outcome = Returned(13)

(* C9: add('') returns 0 and runs none of delimiter resolution,            *)
(* tokenization and validation.                                            *)
C9_EmptyShortCut ==
    (Done /\ input = <<>>) => (outcome = Returned(0) /\ ran = {})

C9_Witness == Done /\ input = <<>> /\ outcome = Returned(0)

(* C10: in any sequence of calls, on one calculator or on several, the     *)
(* outcome of a call is the outcome the first call with the same argument  *)
(* had, and the shared default pattern is never left changed.              *)
C10_Pure ==
    /\ DEFAULT_DELIMITER_PATTERN = DefaultPatternObject
    /\ Done => (input \in DOMAIN seen /\ outcome = seen[input].first)

\* a second call with "1,1000", on the second calculator, after calls with
\* every other argument, those with a per-call pattern among them
C10_Witness ==
    /\ Done /\ instance = 2
    /\ input = <<"1", ",", "1", "0", "0", "0">>
    /\ seen[input].calls = 2
    /\ \A s \in CallPool : Render(s) \in DOMAIN seen
    /\ outcome = Returned(1001)

\* every bracket pair of the declaration is empty, and nothing else is in it
OnlyEmptyPairs(h) ==
    /\ h.kind = "brackets" /\ h.pre = <<>> /\ h.post = <<>>
    /\ h.groups # <<>>
    /\ \A k \in 1 .. Len(h.groups) : h.groups[k] = <<>>

(* C11: when every bracket pair of the declaration is empty nothing is     *)
(* declared and the payload is split at commas and line-feeds only, so a   *)
(* token of several digits stays one number.                               *)
C11_EmptyPairsDiscarded ==
    (Done /\ OnlyEmptyPairs(shape.header))
        => /\ delimitersUsed = <<>>
           /\ Tokens = SelectSeq(LongestMatchSplit(PayloadText(shape.fields),
                                                   DefaultDelimiters),
                                 LAMBDA part : part # <<>>)

\* the argument without its empty tokens: the fields that hold a token, the
\* last of them with no separator behind it
WithoutEmptyTokens(s) ==
    LET kept == SelectSeq(s.fields, LAMBDA f : f.tok.text # <<>>)
    IN  [header |-> s.header,
         fields |-> [i \in 1 .. Len(kept) |->
                        IF i = Len(kept)
                        THEN [tok |-> kept[i].tok, sep |-> <<>>]
                        ELSE kept[i]]]

\* the outcome of a call of its own with the argument s
OutcomeOf(s) == addRun(Render(s), DefaultPatternObject).outcome

(* C12: delimiters that only make empty tokens (two or more in a row, one  *)
(* in front of the payload, one behind it) do not change the outcome: it   *)
(* is the outcome of the same argument written without them.               *)
C12_EmptyTokensDropped ==
    Done => outcome = OutcomeOf(WithoutEmptyTokens(shape))

C12_Witness ==
    /\ Done /\ shape.header = NoHeader
    /\ Len(shape.fields) = 3
    /\ shape.fields[1].tok.text = <<"1">>
    /\ shape.fields[2].tok = NoToken
    /\ shape.fields[3].tok.text = <<"1", "0", "0", "0">>
    /\ shape.fields[3].sep = <<LF>>
    /\ Render(WithoutEmptyTokens(shape)) = <<"1", ",", "1", "0", "0", "0">>
    /\ outcome = Returned(1001)

\* a base-10 signed integer and nothing else: digits, or '-' and digits
StrictInteger(t) ==
    /\ t # <<>>
    /\ \A i \in 2 .. Len(t) : t[i] \in Digits
    /\ t[1] \in Digits \/ (t[1] = "-" /\ Len(t) > 1)

StrictValue(t) ==
    IF t[1] = "-" THEN 0 - DigitsValue(Tail(t), 0) ELSE DigitsValue(t, 0)

\* the tokens of a header-less argument that are integers, and their values
IntegerTokens ==
    SelectSeq(LongestMatchSplit(input, DefaultDelimiters), StrictInteger)

ValuesUpTo1000 ==
    SelectSeq([i \in 1 .. Len(IntegerTokens) |-> StrictValue(IntegerTokens[i])],
              LAMBDA v : v >= 0 /\ v <= 1000)

(* C13: a token that is not a base-10 signed integer contributes nothing:  *)
(* a returned sum is the total of the integer tokens in 0 .. 1000, and the *)
(* negative-number error lists integer tokens only.                        *)
C13_NonNumericIgnored ==
    (Done /\ ~StartsWith(input, CUSTOM_DELIMITER_PREFIX))
        => /\ outcome.kind = "sum" => outcome.value = Total(ValuesUpTo1000)
           /\ (outcome.kind = "error" /\ outcome.name = "Error")
                  => outcome.message =
                         NegativeMessage(SelectSeq(IntegerTokens,
                                                   LAMBDA t : t[1] = "-"))

\* the declaration add reads from a "//" argument (lines 120-121)
DeclarationRead(in) == Substring(in, 2, IndexOf(in, LF, 0))

NegativeError(o) ==
    /\ o.kind = "error" /\ o.name = "Error"
    /\ Len(o.message) > 2
    /\ SubSeq(o.message, 1, 2) = <<NEGATIVE_ERROR_MESSAGE, " ">>

(* C14: whatever the argument, malformed headers included, add ends with a *)
(* non-negative integer or with the negative-number error and nothing      *)
(* else, and every bracket pair the scan finds from an index ends at or    *)
(* behind that index, so the next index is strictly larger.                *)
C14_TwoOutcomes ==
    Done =>
        /\ (outcome.kind = "sum" /\ outcome.value \in Nat) \/ NegativeError(outcome)
        /\ \A currentIndex \in 0 .. Len(DeclarationRead(input)) :
               findNextBracketPair(DeclarationRead(input), currentIndex).found
                   => findNextBracketPair(DeclarationRead(input),
                                          currentIndex).endIndex + 1 > currentIndex

\* reversed brackets in the declaration
C14_Witness ==
    /\ Done
    /\ input = <<"/", "/", "]", "[", LF, "1">>
    /\ outcome = Returned(1)

(* C15: a "//" argument without a line-feed has the marker "//" as its one *)
(* custom delimiter and the whole argument, marker included, as payload;   *)
(* what follows the marker is not read as a declaration.                   *)
C15_MarkerWithoutLineFeed ==
    (Done /\ StartsWith(input, CUSTOM_DELIMITER_PREFIX) /\ ~Includes(input, LF))
        => /\ delimitersUsed = <<CUSTOM_DELIMITER_PREFIX>>
           /\ partsSplit = LongestMatchSplit(input,
                               DefaultDelimiters \union {CUSTOM_DELIMITER_PREFIX})

C15_Witness ==
    /\ Done
    /\ input = <<"/", "/", ";", "1", ";", "1">>
    /\ delimitersUsed = << <<"/", "/">> >>
    /\ partsSplit = << <<>>, <<";", "1", ";", "1">> >>
    /\ outcome = Returned(0)

====
